---------------------------- MODULE Spec2Model ----------------------------
(***************************************************************************)
(* Model of the environmental monitoring system of                         *)
(* modulo-03-arduino-rust/exemplos/monitor_ambiental.rs: the sensor        *)
(* conversions, the ring storage (DataStorage), the alert system, the      *)
(* monitoring cycle and the driver loop of main.                           *)
(* Also bubble_sort_rust of                                                *)
(* modulo-01-fundamentos-embarcados/exemplos/benchmark_comparativo.rs.     *)
(*                                                                         *)
(* f32 values are modelled bit-exactly as sign / 24-bit mantissa /         *)
(* exponent with IEEE round-to-nearest-even; u32 values as two 16-bit      *)
(* halves, so that arithmetic modulo 2^32 stays inside TLC's integers.     *)
(***************************************************************************)
EXTENDS Integers, Sequences, FiniteSets, TLC

(***************************************************************************)
(* f32: [k, s, m, e] is (-1)^s * m * 2^e with 2^23 <= m < 2^24, or zero    *)
(* (m = 0, e = 0, s = 0).  k is "fin", "inf" or "nan".  Subnormals and     *)
(* exponent overflow are outside the value range of this program.  The     *)
(* sign of zero is not kept: nothing in the program observes it.           *)
(***************************************************************************)
Two23 == 2^23

Two24 == 2^24

F32Zero == [k |-> "fin", s |-> 0, m |-> 0, e |-> 0]

F32Inf(s) == [k |-> "inf", s |-> s, m |-> 0, e |-> 0]

F32NaN == [k |-> "nan", s |-> 0, m |-> 0, e |-> 0]

F32Fin(s, m, e) == [k |-> "fin", s |-> s, m |-> m, e |-> e]

\* The f32 nearest to (-1)^s * (N + f) * 2^E, where 0 <= f < 1 and f > 0 iff
\* sticky; ties go to the even mantissa.  sticky requires N >= 2^24.
F32Round(s, N, E, sticky) ==
    IF N = 0 THEN F32Zero
    ELSE IF N < Two23
    THEN LET j == CHOOSE j \in 1..23 : N * 2^j >= Two23 /\ N * 2^j < Two24
         IN  F32Fin(s, N * 2^j, E - j)
    ELSE LET k == CHOOSE k \in 0..7 : (N \div 2^k) >= Two23 /\ (N \div 2^k) < Two24
             q == N \div 2^k
             r == N % 2^k
             up == /\ k > 0
                   /\ \/ 2 * r > 2^k
                      \/ 2 * r = 2^k /\ (sticky \/ q % 2 = 1)
             q1 == IF up THEN q + 1 ELSE q
         IN  IF q1 = Two24 THEN F32Fin(s, Two23, E + k + 1)
                           ELSE F32Fin(s, q1, E + k)

\* `n as f32` for an unsigned integer n < 2^31.
F32FromInt(n) == F32Round(0, n, 0, FALSE)

F32Neg(x) == IF x.k = "nan" \/ (x.k = "fin" /\ x.m = 0) THEN x
             ELSE [x EXCEPT !.s = 1 - x.s]

\* |x| < |y| for finite x, y.
F32MagLt(x, y) ==
    IF y.m = 0 THEN FALSE
    ELSE IF x.m = 0 THEN TRUE
    ELSE x.e < y.e \/ (x.e = y.e /\ x.m < y.m)

\* |a| + |b| with sign s, for finite nonzero a, b with a.e >= b.e.
F32AddMag(s, a, b) ==
    LET d  == IF a.e - b.e > 27 THEN 27 ELSE a.e - b.e
        B  == (b.m * 8) \div 2^d
        st == (b.m * 8) % 2^d # 0
    IN  F32Round(s, a.m * 8 + B, a.e - 3, st)

\* |a| - |b| with sign s, for finite nonzero a, b with |a| > |b|.
F32SubMag(s, a, b) ==
    LET d  == IF a.e - b.e > 27 THEN 27 ELSE a.e - b.e
        B  == (b.m * 8) \div 2^d
        st == (b.m * 8) % 2^d # 0
    IN  F32Round(s, a.m * 8 - B - (IF st THEN 1 ELSE 0), a.e - 3, st)

\* x + y
F32Add(x, y) ==
    IF x.k = "nan" \/ y.k = "nan" THEN F32NaN
    ELSE IF x.k = "inf"
    THEN IF y.k = "inf" /\ y.s # x.s THEN F32NaN ELSE x
    ELSE IF y.k = "inf" THEN y
    ELSE IF x.m = 0 THEN y
    ELSE IF y.m = 0 THEN x
    ELSE IF x.s = y.s
    THEN IF x.e >= y.e THEN F32AddMag(x.s, x, y) ELSE F32AddMag(x.s, y, x)
    ELSE IF x.m = y.m /\ x.e = y.e THEN F32Zero
    ELSE IF F32MagLt(y, x) THEN F32SubMag(x.s, x, y)
    ELSE F32SubMag(y.s, y, x)

\* x - y
F32Sub(x, y) == F32Add(x, F32Neg(y))

\* x * y: the 48-bit product of the mantissas from 12-bit halves.
F32Mul(x, y) ==
    IF x.k = "nan" \/ y.k = "nan" THEN F32NaN
    ELSE IF x.k = "inf" \/ y.k = "inf"
    THEN IF (x.k = "fin" /\ x.m = 0) \/ (y.k = "fin" /\ y.m = 0)
         THEN F32NaN ELSE F32Inf((x.s + y.s) % 2)
    ELSE IF x.m = 0 \/ y.m = 0 THEN F32Zero
    ELSE LET a == x.m \div 4096
             b == x.m % 4096
             c == y.m \div 4096
             d == y.m % 4096
             mid == a * d + b * c
             L0 == b * d + (mid % 4096) * 4096
             L == L0 % Two24
             H == a * c + (mid \div 4096) + (L0 \div Two24)
         IN  F32Round((x.s + y.s) % 2, H * 4 + (L \div 2^22),
                      x.e + y.e + 22, L % 2^22 # 0)

\* n quotient bits of rem / den by long division (rem < 2 * den):
\* <<quotient, remainder is nonzero>>.
RECURSIVE F32DivBits(_, _, _, _)
F32DivBits(rem, den, n, acc) ==
    IF n = 0 THEN <<acc, rem # 0>>
    ELSE IF rem >= den
    THEN F32DivBits((rem - den) * 2, den, n - 1, acc * 2 + 1)
    ELSE F32DivBits(rem * 2, den, n - 1, acc * 2)

\* x / y
F32Div(x, y) ==
    IF x.k = "nan" \/ y.k = "nan" THEN F32NaN
    ELSE IF x.k = "inf"
    THEN IF y.k = "inf" THEN F32NaN ELSE F32Inf((x.s + y.s) % 2)
    ELSE IF y.k = "inf" THEN F32Zero
    ELSE IF y.m = 0
    THEN IF x.m = 0 THEN F32NaN ELSE F32Inf((x.s + y.s) % 2)
    ELSE IF x.m = 0 THEN F32Zero
    ELSE LET qr == F32DivBits(x.m, y.m, 27, 0)
         IN  F32Round((x.s + y.s) % 2, qr[1], x.e - y.e - 26, qr[2])

\* x < y
F32Lt(x, y) ==
    IF x.k = "nan" \/ y.k = "nan" THEN FALSE
    ELSE IF x.k = "inf" THEN x.s = 1 /\ ~(y.k = "inf" /\ y.s = 1)
    ELSE IF y.k = "inf" THEN y.s = 0
    ELSE IF x.s # y.s THEN x.s = 1
    ELSE IF x.s = 0 THEN F32MagLt(x, y)
    ELSE F32MagLt(y, x)

\* x > y
F32Gt(x, y) == F32Lt(y, x)

(***************************************************************************)
(* u32: <<hi, lo>> is hi * 2^16 + lo with 0 <= hi, lo < 2^16.              *)
(***************************************************************************)
Two16 == 2^16

U32(n) == <<n \div Two16, n % Two16>>

U32Lt(a, b) == a[1] < b[1] \/ (a[1] = b[1] /\ a[2] < b[2])

U32Ge(a, b) == ~U32Lt(a, b)

\* a - b modulo 2^32
U32WrappingSub(a, b) ==
    LET borrow == IF a[2] < b[2] THEN 1 ELSE 0
    IN  <<(a[1] - b[1] - borrow + Two16) % Two16, (a[2] - b[2] + Two16) % Two16>>

\* a + b modulo 2^32
U32WrappingAdd(a, b) ==
    LET carry == (a[2] + b[2]) \div Two16
    IN  <<(a[1] + b[1] + carry) % Two16, (a[2] + b[2]) % Two16>>

(***************************************************************************)
(* Data                                                                    *)
(***************************************************************************)
\* Option<T>
None == <<>>

Some(v) == <<v>>

\* Result<f32, SensorError>
Ok(v) == [ok |-> TRUE, val |-> v, err |-> "none"]

Err(e) == [ok |-> FALSE, val |-> F32Zero, err |-> e]

\* struct EnvironmentalData
EnvironmentalData(t, h, a, p, ts) ==
    [temperature |-> t, humidity |-> h, air_quality |-> a, pressure |-> p,
     timestamp |-> ts]

\* SystemConfig::default()
SystemConfig_default ==
    [reading_interval |-> U32(5000), alert_threshold |-> F32FromInt(100),
     calibration_factor |-> F32FromInt(1)]

(***************************************************************************)
(* SensorManager: the conversions of a raw 10-bit sample                   *)
(***************************************************************************)
\* The range check rejecting the upper end of the range as well.
in_range_below(v, lo, hi) ==
    IF F32Lt(v, lo) \/ ~F32Lt(v, hi) THEN Err("ReadError") ELSE Ok(v)

\* `if v < lo || v > hi { return Err(SensorError::ReadError); } Ok(v)`
in_range(v, lo, hi) ==
    IF F32Lt(v, lo) \/ F32Gt(v, hi) THEN Err("ReadError") ELSE Ok(v)

\* (raw as f32 * 5.0) / 1024.0
voltage_of(raw) == F32Div(F32Mul(F32FromInt(raw), F32FromInt(5)), F32FromInt(1024))

convert_temperature(raw) ==
    in_range(F32Mul(voltage_of(raw), F32FromInt(100)),
             F32Neg(F32FromInt(40)), F32FromInt(125))

convert_humidity(raw) ==
    in_range(F32Div(F32Mul(F32FromInt(raw), F32FromInt(100)), F32FromInt(1024)),
             F32Zero, F32FromInt(100))

\* resistance.powf(-2.769034857).  The limit cases are those C99 and IEEE 754
\* fix for pow with a negative non-integer exponent; the other values are the
\* correctly rounded results for the resistances of the sampled raw values
\* 100, 700 and 1023 (a libm may differ from them in the last bit).
powf(resistance) ==
    IF resistance.k = "nan" THEN F32NaN
    ELSE IF resistance.k = "inf"
    THEN IF resistance.s = 0 THEN F32Zero ELSE F32NaN
    ELSE IF resistance.m = 0 THEN F32Inf(0)
    ELSE IF resistance.s = 1 THEN F32NaN
    ELSE IF resistance.m = Two23 /\ resistance.e = -23 THEN resistance
    ELSE CASE resistance = F32Fin(0, 9688842, -20) -> F32Fin(0, 9098725, -32)
           [] resistance = F32Fin(0, 15530909, -25) -> F32Fin(0, 8850929, -20)
           [] resistance = F32Fin(0, 8396808, -33) -> F32Fin(0, 13499901, 4)

\* (5.0 - voltage) / voltage
resistance_of(voltage) == F32Div(F32Sub(F32FromInt(5), voltage), voltage)

convert_air_quality(raw) ==
    in_range(F32Mul(F32Fin(0, 15283266, -17), powf(resistance_of(voltage_of(raw)))),
             F32Zero, F32FromInt(10000))

convert_pressure(raw) ==
    in_range(F32Mul(F32Sub(voltage_of(raw), F32Fin(0, Two23, -24)), F32FromInt(400)),
             F32FromInt(30), F32FromInt(110))

\* Raw samples of one acquisition.
RawInput(t, h, a, p) ==
    [temperature |-> t, humidity |-> h, air_quality |-> a, pressure |-> p]

\* The acquisitions of the model: no alert; three alerts; one of temperature,
\* air quality, pressure out of range.
GoodRawInputs == {RawInput(51, 512, 100, 130), RawInput(80, 950, 512, 150)}

BadRawInputs ==
    {RawInput(512, 512, 100, 130), RawInput(51, 512, 1023, 130),
     RawInput(51, 512, 100, 0)}

RawInputs == GoodRawInputs \cup BadRawInputs

\* The four conversions of each acquisition of the model, computed once.
Conversions ==
    [raws \in RawInputs |->
        [temperature |-> convert_temperature(raws.temperature),
         humidity |-> convert_humidity(raws.humidity),
         air_quality |-> convert_air_quality(raws.air_quality),
         pressure |-> convert_pressure(raws.pressure)]]

\* The struct literal of read_all_sensors: the four conversion results c, each
\* followed by `?`, then the clock reading ts.
read_result(c, ts) ==
    IF ~c.temperature.ok THEN [ok |-> FALSE, err |-> c.temperature.err]
    ELSE IF ~c.humidity.ok THEN [ok |-> FALSE, err |-> c.humidity.err]
    ELSE IF ~c.air_quality.ok THEN [ok |-> FALSE, err |-> c.air_quality.err]
    ELSE IF ~c.pressure.ok THEN [ok |-> FALSE, err |-> c.pressure.err]
    ELSE [ok |-> TRUE,
          data |-> EnvironmentalData(c.temperature.val, c.humidity.val,
                                     c.air_quality.val, c.pressure.val, ts)]

\* SensorManager::read_all_sensors on the raw samples raws, with the clock
\* reading ts taken after the four conversions have succeeded.
read_all_sensors(raws, ts) == read_result(Conversions[raws], ts)

(***************************************************************************)
(* DataStorage: the ring of the last N readings                            *)
(***************************************************************************)
N == 50

\* core::mem::zeroed(): every field is the all-zero bit pattern.
zeroed == EnvironmentalData(F32Zero, F32Zero, F32Zero, F32Zero, U32(0))

DataStorage_new ==
    [data_buffer |-> [i \in 0..(N - 1) |-> zeroed],
     write_index |-> 0,
     is_full |-> FALSE]

\* store_data writing one slot past the cursor.
store_data_next_slot(ds, data) ==
    LET write_index == (ds.write_index + 1) % N
    IN  [data_buffer |-> [ds.data_buffer EXCEPT ![write_index] = data],
         write_index |-> write_index,
         is_full |-> IF write_index = 0 THEN TRUE ELSE ds.is_full]

\* store_data assigning the flag instead of only setting it.
store_data_assigns_flag(ds, data) ==
    LET write_index == (ds.write_index + 1) % N
    IN  [data_buffer |-> [ds.data_buffer EXCEPT ![ds.write_index] = data],
         write_index |-> write_index,
         is_full |-> (write_index = 0)]

\* store_data wrapping the cursor one slot early.
store_data_short_wrap(ds, data) ==
    LET write_index == (ds.write_index + 1) % (N - 1)
    IN  [data_buffer |-> [ds.data_buffer EXCEPT ![ds.write_index] = data],
         write_index |-> write_index,
         is_full |-> IF write_index = 0 THEN TRUE ELSE ds.is_full]

store_data(ds, data) ==
    LET write_index == (ds.write_index + 1) % N
    IN  [data_buffer |-> [ds.data_buffer EXCEPT ![ds.write_index] = data],
         write_index |-> write_index,
         is_full |-> IF write_index = 0 THEN TRUE ELSE ds.is_full]

\* get_latest_data taking a cursor at 0 for an empty ring.
get_latest_data_ignores_flag(ds) ==
    IF ds.write_index = 0 THEN None
    ELSE Some(ds.data_buffer[ds.write_index - 1])

get_latest_data(ds) ==
    IF ds.write_index = 0 /\ ~ds.is_full THEN None
    ELSE LET index == IF ds.write_index = 0 THEN N - 1 ELSE ds.write_index - 1
         IN  Some(ds.data_buffer[index])

\* The first slot of the window get_average_data(count) adds up.
start_index(ds, count) ==
    IF ds.is_full THEN (ds.write_index + N - count) % N ELSE 0

\* The slot read by iteration i of the loop of get_average_data(count).
average_index(ds, count, i) == (start_index(ds, count) + i) % N

\* TRUE; it makes TLC compute v where it stands instead of deferring it.
Evaluated(v) == v = v

\* Iterations i .. count-1 of the summing loop of get_average_data(count), sums
\* being the four sums before iteration i.
RECURSIVE average_loop(_, _, _, _)
average_loop(ds, count, i, sums) ==
    IF i >= count \/ ~Evaluated(sums) THEN sums
    ELSE LET data == ds.data_buffer[average_index(ds, count, i)]
         IN  average_loop(ds, count, i + 1,
                 [sum_temp |-> F32Add(sums.sum_temp, data.temperature),
                  sum_humidity |-> F32Add(sums.sum_humidity, data.humidity),
                  sum_air_quality |-> F32Add(sums.sum_air_quality, data.air_quality),
                  sum_pressure |-> F32Add(sums.sum_pressure, data.pressure)])

\* The result of get_average_data dividing by the capacity, not by count.
average_of_capacity(sums, c, now) ==
    Some(EnvironmentalData(F32Div(sums.sum_temp, F32FromInt(N)),
                           F32Div(sums.sum_humidity, F32FromInt(N)),
                           F32Div(sums.sum_air_quality, F32FromInt(N)),
                           F32Div(sums.sum_pressure, F32FromInt(N)),
                           now))

\* The Some(EnvironmentalData {..}) of get_average_data: the four sums, each
\* divided by `count as f32`, and the clock reading now.
average_of(sums, c, now) ==
    Some(EnvironmentalData(F32Div(sums.sum_temp, c),
                           F32Div(sums.sum_humidity, c),
                           F32Div(sums.sum_air_quality, c),
                           F32Div(sums.sum_pressure, c),
                           now))

\* get_average_data(count) past its guard, when millis() returns now.
average_some(ds, count, now) ==
    average_of(average_loop(ds, count, 0,
                   [sum_temp |-> F32Zero, sum_humidity |-> F32Zero,
                    sum_air_quality |-> F32Zero, sum_pressure |-> F32Zero]),
               F32FromInt(count), now)

\* get_average_data refusing a count equal to the capacity.
get_average_data_below_capacity(ds, count, now) ==
    IF count = 0 \/ count >= N THEN None ELSE average_some(ds, count, now)

\* get_average_data(count) when millis() returns now.
get_average_data(ds, count, now) ==
    IF count = 0 \/ count > N THEN None ELSE average_some(ds, count, now)

(***************************************************************************)
(* AlertSystem                                                             *)
(***************************************************************************)
AlertSystem_new(config) ==
    [config |-> config,
     alert_history |-> [i \in 0..9 |-> FALSE],
     alert_count |-> 0]

\* struct Alert
Alert(level, message, value, timestamp) ==
    [level |-> level, message |-> message, value |-> value,
     timestamp |-> timestamp]

\* check_alerts looking at the temperature before the air quality.
alerts_of_temperature_first(as, data) ==
    (IF F32Gt(data.temperature, F32FromInt(35))
        \/ F32Lt(data.temperature, F32FromInt(5))
     THEN <<Alert("Critical", "Temperatura fora da faixa normal",
                  data.temperature, data.timestamp)>>
     ELSE <<>>)
    \o
    (IF F32Gt(data.air_quality, as.config.alert_threshold)
     THEN <<Alert("Warning", "Qualidade do ar critica",
                  data.air_quality, data.timestamp)>>
     ELSE <<>>)
    \o
    (IF F32Gt(data.humidity, F32FromInt(90))
        \/ F32Lt(data.humidity, F32FromInt(10))
     THEN <<Alert("Warning", "Umidade fora da faixa normal",
                  data.humidity, data.timestamp)>>
     ELSE <<>>)

\* The alerts check_alerts pushes for data, in the order it pushes them.
alerts_of(as, data) ==
    (IF F32Gt(data.air_quality, as.config.alert_threshold)
     THEN <<Alert("Warning", "Qualidade do ar critica",
                  data.air_quality, data.timestamp)>>
     ELSE <<>>)
    \o
    (IF F32Gt(data.temperature, F32FromInt(35))
        \/ F32Lt(data.temperature, F32FromInt(5))
     THEN <<Alert("Critical", "Temperatura fora da faixa normal",
                  data.temperature, data.timestamp)>>
     ELSE <<>>)
    \o
    (IF F32Gt(data.humidity, F32FromInt(90))
        \/ F32Lt(data.humidity, F32FromInt(10))
     THEN <<Alert("Warning", "Umidade fora da faixa normal",
                  data.humidity, data.timestamp)>>
     ELSE <<>>)

\* update_alert_history leaving the counter where it is.
update_alert_history_stuck(as, has_alert) ==
    [as EXCEPT !.alert_history[as.alert_count % 10] = has_alert]

update_alert_history(as, has_alert) ==
    [as EXCEPT !.alert_history[as.alert_count % 10] = has_alert,
               !.alert_count = as.alert_count + 1]

\* check_alerts: the alerts returned and the alert system it leaves.
check_alerts(as, data) ==
    LET alerts == alerts_of(as, data)
    IN  [alerts |-> alerts,
         alert_system |-> update_alert_history(as, Len(alerts) > 0)]

get_alert_frequency(as) ==
    LET alert_count == Cardinality({i \in 0..9 : as.alert_history[i]})
    IN  F32Mul(F32Div(F32FromInt(alert_count), F32FromInt(10)), F32FromInt(100))

(***************************************************************************)
(* CommunicationSystem: what reaches the serial line and the two LEDs.     *)
(* serial is the sequence of transmissions attempted, each with whether    *)
(* the transport accepted it.                                              *)
(***************************************************************************)
CommunicationSystem_new ==
    [serial |-> <<>>, led_status |-> FALSE, led_alert |-> FALSE, led_updates |-> 0]

\* send_data, the transport accepting the message iff ok.
send_data(comm, data, ok) ==
    [comm EXCEPT !.serial = Append(comm.serial,
                     [kind |-> "data", timestamp |-> data.timestamp, ok |-> ok])]

\* send_alert, the transport accepting the message iff ok.
send_alert(comm, alert, ok) ==
    [comm EXCEPT !.serial = Append(comm.serial,
                     [kind |-> alert.level, timestamp |-> alert.timestamp, ok |-> ok])]

\* The loop `for alert in alerts { send_alert(&alert)? }` from alert i on,
\* where the transport fails on alert number failing (0: on none).
RECURSIVE send_alerts(_, _, _, _)
send_alerts(comm, alerts, i, failing) ==
    IF i > Len(alerts) THEN [ok |-> TRUE, comm |-> comm]
    ELSE IF i = failing
    THEN [ok |-> FALSE, comm |-> send_alert(comm, alerts[i], FALSE)]
    ELSE send_alerts(send_alert(comm, alerts[i], TRUE), alerts, i + 1, failing)

update_status_leds(comm, status, alert) ==
    [comm EXCEPT !.led_status = status, !.led_alert = alert,
                 !.led_updates = comm.led_updates + 1]

(***************************************************************************)
(* SensorManager::calibrate_sensor and the four calls of                   *)
(* calibrate_all_sensors                                                   *)
(***************************************************************************)
\* calibrate_sensor returning CalibrationError for the pressure channel.
calibrate_sensor_pressure_fails(config, sensor_type) ==
    IF sensor_type = "Pressure"
    THEN [ok |-> FALSE, config |-> config]
    ELSE [ok |-> TRUE, config |-> [config EXCEPT !.calibration_factor = F32FromInt(1)]]

\* A calibration that adds to the factor already in place.
calibrate_sensor_drifts(config, sensor_type) ==
    [ok |-> TRUE,
     config |-> [config EXCEPT !.calibration_factor = F32Add(@, F32FromInt(1))]]

calibrate_sensor(config, sensor_type) ==
    CASE sensor_type = "Temperature" ->
           [ok |-> TRUE, config |-> [config EXCEPT !.calibration_factor = F32FromInt(1)]]
      [] sensor_type = "Humidity" ->
           [ok |-> TRUE, config |-> [config EXCEPT !.calibration_factor = F32FromInt(1)]]
      [] sensor_type = "AirQuality" ->
           [ok |-> TRUE, config |-> [config EXCEPT !.calibration_factor = F32FromInt(1)]]
      [] sensor_type = "Pressure" ->
           [ok |-> TRUE, config |-> [config EXCEPT !.calibration_factor = F32FromInt(1)]]

RECURSIVE calibrate_loop(_, _, _)
calibrate_loop(config, sensors, i) ==
    IF i > Len(sensors) THEN [ok |-> TRUE, config |-> config]
    ELSE LET r == calibrate_sensor(config, sensors[i])
         IN  IF ~r.ok THEN r ELSE calibrate_loop(r.config, sensors, i + 1)

(***************************************************************************)
(* State                                                                   *)
(***************************************************************************)
VARIABLES
    data_storage,       \* EnvironmentalMonitoringSystem.data_storage
    alert_system,       \* EnvironmentalMonitoringSystem.alert_system
    sensor_config,      \* EnvironmentalMonitoringSystem.sensor_manager.config
    communication,      \* EnvironmentalMonitoringSystem.communication
    last_reading_time,  \* EnvironmentalMonitoringSystem.last_reading_time
    system_status,      \* EnvironmentalMonitoringSystem.system_status
    clock,              \* what arduino_hal::time::millis() returns now
    overflow_checks,    \* the build profile: u32 subtraction panics on overflow
    pc,                 \* where main is: "boot", "cycle", "handle", "delay", "halted"
    result,             \* what the last run_monitoring_cycle returned
    polls,              \* history: the number of cycles main has run
    status_trace,       \* history: the values the last handler assigned to system_status
    stored,             \* history: the readings passed to store_data, in order
    store_times,        \* history: current_time of each cycle that called store_data
    acquired,           \* history: what read_all_sensors returned in the last cycle
    source,             \* the stream of readings offered to the storage alone
    ret,                \* the last call on the storage alone and what it returned
    conversion,         \* a conversion called alone: its sensor, raw sample and result
    evaluation,         \* the calls of check_alerts on the alert system alone
    sorting             \* a slice passed to bubble_sort_rust and what became of it

vars == <<data_storage, alert_system, sensor_config, communication,
          last_reading_time, system_status, clock, overflow_checks, pc,
          result, polls, status_trace, stored, store_times,
                   acquired, source, sorting, ret,
                   conversion, evaluation>>

\* The bounds of the model.
MaxPolls == 4

MaxExtra == 3

MaxPeriod == 2

\* Stores on the storage alone: enough to wrap the ring.
MaxStores == N + MaxExtra

\* The clock at construction: just started, or shortly before it wraps.
BootTimes == {U32(0), <<Two16 - 1, Two16 - 5000>>}

\* Milliseconds from the start of one cycle to the start of the next:
\* delay_ms(100), or that and 4800 ms spent blocked in the transport.
Delays == {100, 4900}

\* Milliseconds from the millis() of run_monitoring_cycle to the millis() of
\* read_all_sensors, for each acquisition of the model.
ReadLatency(raws) == IF raws.temperature = 80 THEN 1 ELSE 0

\* The transmission of a cycle the transport fails on: 0 none, 1 the reading,
\* 1 + i the i-th alert.
Failures == 0..4

\* EnvironmentalMonitoringSystem::new(), and main before its first statement.
SystemInit ==
    /\ data_storage = DataStorage_new
    /\ alert_system = AlertSystem_new(SystemConfig_default)
    /\ sensor_config = SystemConfig_default
    /\ communication = CommunicationSystem_new
    /\ last_reading_time = U32(0)
    /\ system_status = "Running"
    /\ pc = "boot"
    /\ result = "none"
    /\ polls = 0
    /\ status_trace = <<>>
    /\ stored = <<>>
    /\ store_times = <<>>
    /\ acquired = None
    /\ ret = [op |-> "new", count |-> 0, val |-> None]

Init ==
    /\ SystemInit
    /\ clock \in BootTimes
    /\ overflow_checks \in BOOLEAN
    /\ source = <<>>
    /\ conversion = None
    /\ evaluation = None
    /\ sorting = None

\* The gate comparing the clock itself, not the time since the last reading.
interval_elapsed_since_boot(current_time, last, reading_interval) ==
    U32Ge(current_time, reading_interval)

(***************************************************************************)
(* EnvironmentalMonitoringSystem                                           *)
(***************************************************************************)
\* current_time - last_reading_time >= reading_interval, in wrapping arithmetic.
interval_elapsed(current_time, last, reading_interval) ==
    U32Ge(U32WrappingSub(current_time, last), reading_interval)

\* current_time - last_reading_time overflows (and panics under overflow checks).
subtraction_overflows(current_time, last) == U32Lt(current_time, last)

\* The end of the Ok(data) arm advancing last_reading_time by the interval.
cycle_alerts_adds_interval(current_time, checked, alerted) ==
    /\ alert_system' = checked.alert_system
    /\ IF ~alerted.ok
       THEN /\ communication' = alerted.comm
            /\ result' = "CommunicationError"
            /\ UNCHANGED last_reading_time
       ELSE /\ communication' = update_status_leds(alerted.comm, TRUE,
                                                   Len(checked.alerts) > 0)
            /\ last_reading_time' = U32WrappingAdd(last_reading_time,
                                         sensor_config.reading_interval)
            /\ result' = "Ok"

\* The Ok(data) arm of run_monitoring_cycle from check_alerts on: checked is
\* what check_alerts returned, alerted what the loop over send_alert did.
cycle_alerts(current_time, checked, alerted) ==
    /\ alert_system' = checked.alert_system
    /\ IF ~alerted.ok
       THEN /\ communication' = alerted.comm
            /\ result' = "CommunicationError"
            /\ UNCHANGED last_reading_time
       ELSE /\ communication' = update_status_leds(alerted.comm, TRUE,
                                                   Len(checked.alerts) > 0)
            /\ last_reading_time' = current_time
            /\ result' = "Ok"

\* The Ok(data) arm of run_monitoring_cycle from send_data on: sent is the
\* communication system send_data left.
cycle_send(current_time, data, sent, checked, failing) ==
    IF failing = 1
    THEN /\ communication' = sent
         /\ result' = "CommunicationError"
         /\ UNCHANGED <<alert_system, last_reading_time>>
    ELSE cycle_alerts(current_time, checked,
                      send_alerts(sent, checked.alerts, 1,
                                  IF failing > 1 THEN failing - 1 ELSE 0))

\* An Ok arm that, having acquired a reading, declares the system Running.
cycle_acquired_clears_error(current_time, data, failing) ==
    /\ data_storage' = store_data(data_storage, data)
    /\ stored' = Append(stored, data)
    /\ store_times' = Append(store_times, current_time)
    /\ cycle_send(current_time, data,
                  send_data(communication, data, failing # 1),
                  check_alerts(alert_system, data), failing)
    /\ system_status' = "Running"

\* The Ok(data) arm of run_monitoring_cycle.
cycle_acquired(current_time, data, failing) ==
    /\ data_storage' = store_data(data_storage, data)
    /\ stored' = Append(stored, data)
    /\ store_times' = Append(store_times, current_time)
    /\ cycle_send(current_time, data,
                  send_data(communication, data, failing # 1),
                  check_alerts(alert_system, data), failing)
    /\ UNCHANGED system_status

\* The match updating last_reading_time after it, on the Err arm as well.
cycle_match_always_stamps(current_time, r, failing) ==
    /\ acquired' = Some(r)
    /\ IF r.ok
       THEN /\ cycle_acquired(current_time, r.data, failing)
            /\ UNCHANGED clock
       ELSE /\ system_status' = "Error"
            /\ result' = r.err
            /\ last_reading_time' = current_time
            /\ UNCHANGED <<data_storage, alert_system, communication,
                           clock, stored, store_times>>

\* The match on read_all_sensors() of run_monitoring_cycle, r being what it
\* returned.
cycle_match(current_time, r, failing) ==
    /\ acquired' = Some(r)
    /\ IF r.ok
       THEN /\ cycle_acquired(current_time, r.data, failing)
            /\ UNCHANGED clock
       ELSE /\ system_status' = "Error"
            /\ result' = r.err
            /\ UNCHANGED <<data_storage, alert_system, communication,
                           last_reading_time, clock, stored, store_times>>

\* run_monitoring_cycle on the raw samples raws, with the transport failing on
\* transmission number failing.
run_monitoring_cycle(raws, failing) ==
    IF overflow_checks /\ subtraction_overflows(clock, last_reading_time)
    THEN /\ pc' = "halted"
         /\ result' = "panic"
         /\ acquired' = None
         /\ UNCHANGED <<data_storage, alert_system, communication,
                        last_reading_time, system_status, clock, stored,
                        store_times>>
    ELSE /\ pc' = "handle"
         /\ IF interval_elapsed(clock, last_reading_time,
                                sensor_config.reading_interval)
            THEN cycle_match(clock,
                     read_all_sensors(raws,
                         U32WrappingAdd(clock, U32(ReadLatency(raws)))),
                     failing)
            ELSE /\ result' = "Ok"
                 /\ acquired' = None
                 /\ UNCHANGED <<data_storage, alert_system, communication,
                                last_reading_time, system_status, clock, stored,
                                store_times>>

calibrate_all_sensors ==
    LET r == calibrate_loop(sensor_config,
                 <<"Temperature", "Humidity", "AirQuality", "Pressure">>, 1)
    IN  /\ sensor_config' = r.config
        /\ IF r.ok
           THEN /\ system_status' = "Running"
                /\ status_trace' = <<"Calibrating", "Running">>
           ELSE /\ system_status' = "Calibrating"
                /\ status_trace' = <<"Calibrating">>

(***************************************************************************)
(* main                                                                    *)
(***************************************************************************)
\* monitoring_system.calibrate_all_sensors().expect(..)
Boot ==
    /\ pc = "boot"
    /\ calibrate_all_sensors
    /\ pc' = "cycle"
    /\ UNCHANGED <<data_storage, alert_system, communication, last_reading_time,
                   clock, overflow_checks, result, polls, stored, store_times,
                   acquired, source, sorting, ret,
                   conversion, evaluation>>

\* monitoring_system.run_monitoring_cycle()
RunMonitoringCycle(raws, failing) ==
    /\ pc = "cycle"
    /\ polls < MaxPolls
    /\ polls' = polls + 1
    /\ run_monitoring_cycle(raws, failing)
    /\ status_trace' = IF system_status' = system_status THEN <<>> ELSE <<system_status'>>
    /\ UNCHANGED <<sensor_config, overflow_checks, source, sorting, ret,
                   conversion, evaluation>>

\* A match that reports the error and goes on without recalibrating.
HandleResult_without_calibration ==
    /\ pc = "handle"
    /\ pc' = "delay"
    /\ UNCHANGED <<data_storage, alert_system, sensor_config, communication,
                   last_reading_time, system_status, clock, overflow_checks,
                   result, polls, status_trace, stored, store_times, acquired,
                   source, sorting, ret, conversion, evaluation>>

\* The match on the result of the cycle.
HandleResult ==
    /\ pc = "handle"
    /\ pc' = "delay"
    /\ IF result = "ReadError"
       THEN calibrate_all_sensors
       ELSE UNCHANGED <<sensor_config, system_status, status_trace>>
    /\ UNCHANGED <<data_storage, alert_system, communication, last_reading_time,
                   clock, overflow_checks, result, polls, stored, store_times,
                   acquired, source, sorting, ret,
                   conversion, evaluation>>

\* arduino_hal::delay_ms(100), and back to the head of the loop.
Delay(d) ==
    /\ pc = "delay"
    /\ pc' = "cycle"
    /\ clock' = U32WrappingAdd(clock, U32(d))
    /\ UNCHANGED <<data_storage, alert_system, sensor_config, communication,
                   last_reading_time, system_status, overflow_checks, result,
                   polls, status_trace, stored, store_times,
                   acquired, source, sorting, ret,
                   conversion, evaluation>>

Next ==
    \/ Boot
    \/ \E raws \in RawInputs, failing \in Failures :
           RunMonitoringCycle(raws, failing)
    \/ HandleResult
    \/ \E d \in Delays : Delay(d)

Spec == Init /\ [][Next]_vars

(***************************************************************************)
(* run_monitoring_cycle under a caller that may leave an error standing    *)
(***************************************************************************)
\* A caller of run_monitoring_cycle that, handed Err(ReadError), goes on to
\* its next cycle without calling calibrate_all_sensors.
KeepCycling ==
    /\ pc = "handle"
    /\ result = "ReadError"
    /\ pc' = "delay"
    /\ status_trace' = <<>>
    /\ UNCHANGED <<data_storage, alert_system, sensor_config, communication,
                   last_reading_time, system_status, clock, overflow_checks,
                   result, polls, stored, store_times, acquired,
                   source, sorting, ret, conversion, evaluation>>

NextCycles ==
    \/ Next
    \/ KeepCycling

SpecCycles == Init /\ [][NextCycles]_vars

\* main never stops running its loop: a step that can be taken is taken.
SpecLive == Spec /\ WF_vars(Next)

(***************************************************************************)
(* The storage alone: store_data, get_latest_data and get_average_data     *)
(* called on a DataStorage, the readings stored being those of a periodic  *)
(* stream of good acquisitions.  A caller stores, or looks at the storage   *)
(* once and then stores.                                                   *)
(***************************************************************************)
Sources == UNION {[1..p -> GoodRawInputs] : p \in 1..MaxPeriod}

\* The reading stored by store number k (from 1) at time now.
SourceData(k, now) == read_all_sensors(source[((k - 1) % Len(source)) + 1], now).data

InitStorage ==
    /\ SystemInit
    /\ clock = U32(0)
    /\ overflow_checks = FALSE
    /\ source \in Sources
    /\ conversion = None
    /\ evaluation = None
    /\ sorting = None

StoreData ==
    /\ Len(stored) < MaxStores
    /\ stored' = Append(stored, SourceData(Len(stored) + 1, clock))
    /\ data_storage' = store_data(data_storage, stored'[Len(stored')])
    /\ clock' = U32WrappingAdd(clock, U32(1))
    /\ ret' = [op |-> "store", count |-> 0, val |-> None]
    /\ UNCHANGED <<alert_system, sensor_config, communication, last_reading_time,
                   system_status, overflow_checks, pc, result, polls,
                   status_trace, store_times, acquired, source, sorting,
                   conversion, evaluation>>

GetLatestData ==
    /\ ret.op \in {"new", "store"}
    /\ ret' = [op |-> "latest", count |-> 0, val |-> get_latest_data(data_storage)]
    /\ UNCHANGED <<data_storage, alert_system, sensor_config, communication,
                   last_reading_time, system_status, clock, overflow_checks, pc,
                   result, polls, status_trace, stored, store_times,
                   acquired, source, sorting,
                   conversion, evaluation>>

GetAverageData(count) ==
    /\ ret.op \in {"new", "store"}
    /\ ret' = [op |-> "average", count |-> count,
               val |-> get_average_data(data_storage, count, clock)]
    /\ UNCHANGED <<data_storage, alert_system, sensor_config, communication,
                   last_reading_time, system_status, clock, overflow_checks, pc,
                   result, polls, status_trace, stored, store_times,
                   acquired, source, sorting,
                   conversion, evaluation>>

NextStorage ==
    \/ StoreData
    \/ GetLatestData
    \/ \E count \in 0..(N + 1) : GetAverageData(count)

SpecStorage == InitStorage /\ [][NextStorage]_vars

(***************************************************************************)
(* The conversions alone: one convert_* function called on one raw sample. *)
(***************************************************************************)
\* The largest sample of the 10-bit ADC.
MaxRaw == 1023

\* The air-quality samples whose powf the model knows.
AirQualityRaws == {0, 100, 512, 700, 1023}

\* The calls: every sample for the three linear conversions, the sampled
\* ones for convert_air_quality.
ConversionInputs ==
    {[sensor |-> s, raw |-> r, out |-> None] :
        s \in {"Temperature", "Humidity", "Pressure"}, r \in 0..MaxRaw}
    \cup {[sensor |-> "AirQuality", raw |-> r, out |-> None] : r \in AirQualityRaws}

InitConvert ==
    /\ SystemInit
    /\ clock = U32(0)
    /\ overflow_checks = FALSE
    /\ source = <<>>
    /\ conversion \in ConversionInputs
    /\ evaluation = None
    /\ sorting = None

\* The call conversion names has returned out.
Converted(out) ==
    /\ conversion.out = None
    /\ conversion' = [conversion EXCEPT !.out = Some(out)]
    /\ UNCHANGED <<data_storage, alert_system, sensor_config, communication,
                   last_reading_time, system_status, clock, overflow_checks, pc,
                   result, polls, status_trace, stored, store_times,
                   acquired, source, sorting, ret,
                   evaluation>>

ConvertTemperature ==
    /\ conversion.sensor = "Temperature"
    /\ Converted(convert_temperature(conversion.raw))

ConvertHumidity ==
    /\ conversion.sensor = "Humidity"
    /\ Converted(convert_humidity(conversion.raw))

ConvertAirQuality ==
    /\ conversion.sensor = "AirQuality"
    /\ Converted(convert_air_quality(conversion.raw))

ConvertPressure ==
    /\ conversion.sensor = "Pressure"
    /\ Converted(convert_pressure(conversion.raw))

NextConvert ==
    \/ ConvertTemperature
    \/ ConvertHumidity
    \/ ConvertAirQuality
    \/ ConvertPressure

SpecConvert == InitConvert /\ [][NextConvert]_vars

(***************************************************************************)
(* The alert system alone: check_alerts called on a sequence of readings,  *)
(* get_alert_frequency after each.                                         *)
(***************************************************************************)
MaxEvaluations == 11

\* A reading given by whole numbers.
AlertInput(a, t, h, ts) ==
    [air_quality |-> a, temperature |-> t, humidity |-> h, timestamp |-> ts]

\* The readings evaluated: nothing out of range; every value on its upper
\* threshold; on its lower threshold; each rule alone; two rules; all three.
AlertInputs ==
    {AlertInput(50, 20, 50, 1), AlertInput(100, 35, 90, 2),
     AlertInput(100, 5, 10, 3), AlertInput(101, 20, 50, 4),
     AlertInput(50, 36, 50, 5), AlertInput(50, 4, 50, 6),
     AlertInput(50, 20, 91, 7), AlertInput(50, 20, 9, 8),
     AlertInput(101, 20, 9, 9), AlertInput(101, 36, 91, 10)}

\* The EnvironmentalData of an input; the pressure takes part in no rule.
AlertData(input) ==
    EnvironmentalData(F32FromInt(input.temperature), F32FromInt(input.humidity),
                      F32FromInt(input.air_quality), F32FromInt(100),
                      U32(input.timestamp))

InitAlerts ==
    /\ SystemInit
    /\ clock = U32(0)
    /\ overflow_checks = FALSE
    /\ source = <<>>
    /\ conversion = None
    /\ evaluation = [flags |-> <<>>, input |-> None, alerts |-> <<>>,
                     frequency |-> get_alert_frequency(alert_system)]
    /\ sorting = None

\* check_alerts(&data) has returned checked; get_alert_frequency() follows.
alerts_checked(input, checked) ==
    /\ alert_system' = checked.alert_system
    /\ evaluation' = [flags |-> Append(evaluation.flags, Len(checked.alerts) > 0),
                      input |-> input,
                      alerts |-> checked.alerts,
                      frequency |-> get_alert_frequency(checked.alert_system)]

CheckAlerts(input) ==
    /\ Len(evaluation.flags) < MaxEvaluations
    /\ alerts_checked(input, check_alerts(alert_system, AlertData(input)))
    /\ UNCHANGED <<data_storage, sensor_config, communication,
                   last_reading_time, system_status, clock, overflow_checks, pc,
                   result, polls, status_trace, stored, store_times,
                   acquired, source, sorting, ret,
                   conversion>>

NextAlerts == \E input \in AlertInputs : CheckAlerts(input)

SpecAlerts == InitAlerts /\ [][NextAlerts]_vars

(***************************************************************************)
(* bubble_sort_rust of                                                     *)
(* modulo-01-fundamentos-embarcados/exemplos/benchmark_comparativo.rs      *)
(***************************************************************************)
\* a - b in usize when the build does not check for overflow.  usize is 16
\* bits wide on the AVR boards of the course; a wider usize gives the same
\* outcomes below.
usize_wrapping_sub(a, b) == (a - b + Two16) % Two16

\* What the sort has made of a slice: the fault that stopped it, if any, and
\* the slice as it stands.
Sorted(arr) == [fault |-> "none", arr |-> arr]

Fault(f, arr) == [fault |-> f, arr |-> arr]

\* arr.swap(j, j + 1), j counted from 0
swap(arr, j) ==
    [arr EXCEPT ![j + 1] = arr[j + 2], ![j + 2] = arr[j + 1]]

\* `for j in 0..end { if arr[j] > arr[j + 1] { arr.swap(j, j + 1); } }`,
\* from j on
RECURSIVE inner_loop(_, _, _)
inner_loop(arr, j, end) ==
    IF j >= end THEN Sorted(arr)
    ELSE IF j + 1 >= Len(arr) THEN Fault("index out of bounds", arr)
    ELSE inner_loop(IF arr[j + 1] > arr[j + 2] THEN swap(arr, j) ELSE arr,
                    j + 1, end)

\* `for i in 0..end { for j in 0..len - 1 - i { .. } }`, from i on; the
\* subtractions are those of a build that reached the loop at all.
RECURSIVE outer_loop(_, _, _)
outer_loop(arr, i, end) ==
    IF i >= end THEN Sorted(arr)
    ELSE LET r == inner_loop(arr, 0,
                      usize_wrapping_sub(usize_wrapping_sub(Len(arr), 1), i))
         IN  IF r.fault # "none" THEN r ELSE outer_loop(r.arr, i + 1, end)

\* bubble_sort_rust(arr) in a build with overflow checks (checks) or without
bubble_sort_rust(arr, checks) ==
    IF checks /\ Len(arr) < 1
    THEN Fault("attempt to subtract with overflow", arr)
    ELSE outer_loop(arr, 0, usize_wrapping_sub(Len(arr), 1))

\* let mut test_data = [64, 34, 25, 12, 22, 11, 90, 5, 77, 30];
test_data == <<64, 34, 25, 12, 22, 11, 90, 5, 77, 30>>

MaxLen == 4

\* Elements of the slices tried: the ends of i32 and values between them.
SortValues == {-2147483647 - 1, -1, 0, 5, 2147483647}

\* The slices tried: every slice of up to MaxLen elements, and the array
\* benchmark_sorting sorts.
Slices ==
    UNION {[1..n -> SortValues] : n \in 0..MaxLen} \cup {test_data}

InitSort ==
    /\ SystemInit
    /\ clock = U32(0)
    /\ overflow_checks \in BOOLEAN
    /\ source = <<>>
    /\ conversion = None
    /\ evaluation = None
    /\ \E arr \in Slices : sorting = [input |-> arr, output |-> None]

\* bubble_sort_rust(&mut arr) has returned or panicked.
BubbleSort ==
    /\ sorting.output = None
    /\ sorting' = [sorting EXCEPT
                     !.output = Some(bubble_sort_rust(sorting.input, overflow_checks))]
    /\ UNCHANGED <<data_storage, alert_system, sensor_config, communication,
                   last_reading_time, system_status, clock, overflow_checks, pc,
                   result, polls, status_trace, stored, store_times, acquired,
                   source, ret, conversion, evaluation>>

NextSort == BubbleSort

SpecSort == InitSort /\ [][NextSort]_vars

-----------------------------------------------------------------------------
\* Properties of DataStorage, checked under SpecStorage.  stored is the
\* sequence of readings passed to store_data so far; each carries its own
\* timestamp, so two stored readings are never equal.

\* C1: the write cursor always lies in [0, N), and while the full flag is
\* false exactly the slots [0, cursor) hold stored readings: slot i holds
\* the (i+1)-th stored reading and every slot from the cursor on is still
\* the zeroed value of DataStorage::new.
C1_CursorAndPrefix ==
    /\ data_storage.write_index \in 0..(N - 1)
    /\ ~data_storage.is_full =>
          /\ data_storage.write_index = Len(stored)
          /\ \A i \in 0..(N - 1) :
                data_storage.data_buffer[i] =
                    IF i < data_storage.write_index THEN stored[i + 1] ELSE zeroed

C1_Witness ==
    /\ ~data_storage.is_full
    /\ data_storage.write_index = N - 1
    /\ data_storage.data_buffer[N - 2] = stored[N - 1]
    /\ data_storage.data_buffer[N - 1] = zeroed

\* C2: the full flag is false in a new ring, is true after k stores exactly
\* when k >= N, is set by the store that wraps the cursor to 0, and is never
\* reset once true.
C2_FullFlag ==
    /\ [](data_storage.is_full <=> Len(stored) >= N)
    /\ [][(~data_storage.is_full /\ data_storage'.is_full) =>
               /\ Len(stored') = Len(stored) + 1
               /\ data_storage.write_index = N - 1
               /\ data_storage'.write_index = 0]_vars
    /\ [][data_storage.is_full => data_storage'.is_full]_vars

C2_Witness ==
    /\ data_storage.is_full
    /\ Len(stored) = N + 1
    /\ data_storage.write_index = 1

\* C3: get_latest_data returns None exactly when nothing has been stored;
\* after k >= 1 stores it returns the k-th stored reading, also right after
\* the cursor has wrapped to 0.
C3_Latest ==
    ret.op = "latest" =>
        ret.val = IF Len(stored) = 0 THEN None ELSE Some(stored[Len(stored)])

C3_Witness ==
    /\ ret.op = "latest"
    /\ Len(stored) = N
    /\ data_storage.write_index = 0
    /\ ret.val = Some(stored[N])

\* C4: after k stores the ring holds exactly the last min(k, N) stored
\* readings, the j-th in slot (j - 1) mod N, and a store beyond the N-th
\* overwrites the oldest reading still held and changes no other slot.
C4_LastReadings ==
    /\ [](/\ \A j \in 1..Len(stored) :
                IF j > Len(stored) - N
                THEN data_storage.data_buffer[(j - 1) % N] = stored[j]
                ELSE \A i \in 0..(N - 1) : data_storage.data_buffer[i] # stored[j]
          /\ \A i \in 0..(N - 1) :
                i >= Len(stored) => data_storage.data_buffer[i] = zeroed)
    /\ [][(Len(stored') = Len(stored) + 1 /\ Len(stored) >= N) =>
               /\ data_storage.data_buffer[Len(stored) % N] = stored[Len(stored) - N + 1]
               /\ data_storage'.data_buffer[Len(stored) % N] = stored'[Len(stored')]
               /\ \A i \in 0..(N - 1) :
                     \/ i = Len(stored) % N
                     \/ data_storage'.data_buffer[i] = data_storage.data_buffer[i]]_vars

C4_Witness ==
    /\ Len(stored) = N + 2
    /\ data_storage.data_buffer[0] = stored[N + 1]
    /\ data_storage.data_buffer[1] = stored[N + 2]
    /\ data_storage.data_buffer[2] = stored[3]

\* C5: get_average_data(count) starts its window at (cursor + N - count)
\* mod N, so that the count slots it averages are the ones ending just before
\* the cursor: the count most recently stored readings.  Stated for the
\* calls made when at least count readings have been stored.
C5_WindowIsMostRecent ==
    (ret.op = "average" /\ ret.count \in 1..N /\ ret.count <= Len(stored)) =>
        \A i \in 0..(ret.count - 1) :
            /\ average_index(data_storage, ret.count, i) =
                   (data_storage.write_index + N - ret.count + i) % N
            /\ data_storage.data_buffer[average_index(data_storage, ret.count, i)] =
                   stored[Len(stored) - ret.count + 1 + i]

\* C6: for every count in 1..N, get_average_data(count) averages only slots
\* that hold stored readings: no slot of its window is an unwritten, still
\* zeroed one.
C6_WindowIsWritten ==
    (ret.op = "average" /\ ret.count \in 1..N) =>
        \A i \in 0..(ret.count - 1) :
            \E j \in 1..Len(stored) :
                data_storage.data_buffer[average_index(data_storage, ret.count, i)] =
                    stored[j]

\* C7: get_average_data(count) returns None exactly when count = 0 or
\* count > N, returns a value for every count in 1..N whatever the ring
\* holds, and never changes the ring.
C7_AverageGuard ==
    /\ [](ret.op = "average" =>
            (ret.val = None <=> (ret.count = 0 \/ ret.count > N)))
    /\ [][ret'.op = "average" => data_storage' = data_storage]_vars

C7_Witness ==
    /\ ret.op = "average"
    /\ ret.count = N
    /\ ret.val # None
    /\ Len(stored) = 1

\* The four measured fields of a reading.
Fields == {"temperature", "humidity", "air_quality", "pressure"}

\* Every slot of the ring has the field values of slot 0.
RingConstant ==
    \A i \in 0..(N - 1) : \A f \in Fields :
        data_storage.data_buffer[i][f] = data_storage.data_buffer[0][f]

\* The positive integer n has at most 24 significant bits.
FitsSignificand(n) ==
    LET s == CHOOSE t \in 0..7 : n \div 2^t < Two24 /\ (t = 0 \/ n \div 2^(t - 1) >= Two24)
    IN  n % 2^s = 0

\* Every multiple k * v, 1 <= k <= count, of the f32 value v is an f32 value.
ExactMultiples(v, count) ==
    v.k = "fin" /\ \A k \in 1..count : v.m = 0 \/ FitsSignificand(v.m * k)

\* C8 (as stated): on a full ring in which every stored reading has the same
\* field values v, get_average_data(count) returns v in every field, for
\* every count in 1..N.
C8_ConstantRingAverageIsV ==
    (ret.op = "average" /\ ret.val # None /\ data_storage.is_full /\ RingConstant) =>
        \A f \in Fields : ret.val[1][f] = data_storage.data_buffer[0][f]

\* C8 (amended): on a full ring in which every stored reading has the same
\* field values v, get_average_data(count) returns v in each field whose
\* multiples k * v, 1 <= k <= count, are all exactly representable in f32.
C8_ConstantRingAverage ==
    (ret.op = "average" /\ ret.val # None /\ data_storage.is_full /\ RingConstant) =>
        \A f \in Fields :
            ExactMultiples(data_storage.data_buffer[0][f], ret.count) =>
                ret.val[1][f] = data_storage.data_buffer[0][f]

C8_Witness ==
    /\ ret.op = "average"
    /\ ret.count = 3
    /\ data_storage.is_full
    /\ RingConstant
    /\ ret.val[1].temperature = data_storage.data_buffer[0].temperature
    /\ ExactMultiples(data_storage.data_buffer[0].temperature, 3)
    /\ ret.val[1].air_quality # data_storage.data_buffer[0].air_quality
    /\ ~ExactMultiples(data_storage.data_buffer[0].air_quality, 3)

-----------------------------------------------------------------------------
\* Properties of run_monitoring_cycle, checked under Spec.  A step that
\* increments polls is one call of run_monitoring_cycle; it leaves pc at
\* "handle" when the call returns and at "halted" when it panics.

\* C9: a cycle in which current_time - last_reading_time evaluates to less
\* than reading_interval performs no acquisition, returns Ok, and leaves
\* last_reading_time, the ring, the alert state, the LEDs and serial output
\* and the system status unchanged.
C9_GatedCycle ==
    [][(/\ polls' = polls + 1
        /\ pc' = "handle"
        /\ U32Lt(U32WrappingSub(clock, last_reading_time),
                 sensor_config.reading_interval)) =>
           /\ result' = "Ok"
           /\ acquired' = None
           /\ UNCHANGED <<last_reading_time, data_storage, stored, alert_system,
                          communication, system_status>>]_vars

C9_Witness ==
    /\ pc = "handle"
    /\ result = "Ok"
    /\ acquired = None
    /\ Len(stored) = 1
    /\ U32WrappingSub(clock, last_reading_time) = U32(100)

\* C10: when the interval has elapsed and read_all_sensors fails with
\* ReadError (some channel out of range), the cycle returns that ReadError,
\* sets the status to Error, stores nothing, sends nothing, evaluates no
\* alert, and leaves last_reading_time unchanged.
C10_ReadErrorCycle ==
    [][(/\ polls' = polls + 1
        /\ acquired' # None
        /\ ~acquired'[1].ok) =>
           /\ U32Ge(U32WrappingSub(clock, last_reading_time),
                    sensor_config.reading_interval)
           /\ acquired'[1].err = "ReadError"
           /\ pc' = "handle"
           /\ result' = "ReadError"
           /\ system_status' = "Error"
           /\ UNCHANGED <<data_storage, stored, communication, alert_system,
                          last_reading_time>>]_vars

C10_Witness ==
    /\ pc = "handle"
    /\ result = "ReadError"
    /\ acquired # None
    /\ ~acquired[1].ok
    /\ system_status = "Error"
    /\ Len(stored) = 1
    /\ Len(communication.serial) > 0
    /\ last_reading_time # U32(0)

\* C11: when send_data or send_alert fails with CommunicationError in a
\* cycle whose acquisition succeeded, the cycle still advances
\* last_reading_time to current_time, and the next poll neither acquires nor
\* sends again before a full reading_interval has elapsed since that
\* acquisition.
C11_FailedReportStamps ==
    /\ [][(/\ polls' = polls + 1
            /\ acquired' # None
            /\ acquired'[1].ok
            /\ result' = "CommunicationError") =>
               last_reading_time' = clock]_vars
    /\ [][(/\ polls' = polls + 1
            /\ pc' = "handle"
            /\ result = "CommunicationError"
            /\ U32Lt(U32WrappingSub(clock, stored[Len(stored)].timestamp),
                     sensor_config.reading_interval)) =>
               /\ acquired' = None
               /\ communication' = communication]_vars

\* C12: the status is Running after construction; calibrate_all_sensors,
\* invoked from Running (at boot) or from Error (after a ReadError), sets the
\* status to Calibrating, calibrates the four channels, and ends with the
\* status Running and the result Ok; a ReadError leaves the status Error and
\* the calibration that follows brings it back to Running through
\* Calibrating.
C12_CalibrateStatus ==
    /\ [](pc = "boot" => system_status = "Running")
    /\ [](pc = "handle" /\ result = "ReadError" => system_status = "Error")
    /\ [][((pc = "boot" \/ (pc = "handle" /\ result = "ReadError")) /\ pc' # pc) =>
             /\ system_status \in {"Running", "Error"}
             /\ calibrate_loop(sensor_config,
                    <<"Temperature", "Humidity", "AirQuality", "Pressure">>, 1).ok
             /\ sensor_config'.calibration_factor = F32FromInt(1)
             /\ status_trace' = <<"Calibrating", "Running">>
             /\ system_status' = "Running"]_vars

C12_Witness ==
    /\ pc = "delay"
    /\ result = "ReadError"
    /\ status_trace = <<"Calibrating", "Running">>
    /\ system_status = "Running"

\* C13: whenever acquisition succeeds in a cycle, that cycle stores the
\* reading, evaluates it for alerts (one alert-history update) and attempts
\* to report it; so the number of alert-history updates always equals the
\* number of readings stored, also in executions where the transport fails.
C13_EvaluatedAsOftenAsStored ==
    /\ [][(polls' = polls + 1 /\ acquired' # None /\ acquired'[1].ok) =>
             /\ stored' = Append(stored, acquired'[1].data)
             /\ alert_system'.alert_count = alert_system.alert_count + 1
             /\ Len(communication'.serial) > Len(communication.serial)]_vars
    /\ [](alert_system.alert_count = Len(stored))

\* C14: the gate tolerates wraparound of the 32-bit millisecond clock: in a
\* cycle where current_time has wrapped past 2^32 once since
\* last_reading_time (so current_time < last_reading_time as numbers), the
\* subtraction does not fault, the elapsed time is (current_time -
\* last_reading_time) mod 2^32, and the cycle acquires exactly when that is
\* >= reading_interval.
C14_WrapTolerant ==
    [][(polls' = polls + 1 /\ U32Lt(clock, last_reading_time)) =>
          /\ result' # "panic"
          /\ pc' = "handle"
          /\ acquired' # None <=>
                 U32Ge(U32WrappingSub(clock, last_reading_time),
                       sensor_config.reading_interval)]_vars

-----------------------------------------------------------------------------
\* Properties of the conversions, checked under SpecConvert.

\* C15: for a raw air-quality sample of 0 (voltage 0) convert_air_quality
\* returns Err(ReadError): it neither faults nor returns Ok with a ppm value.
C15_ZeroSampleIsReadError ==
    (conversion.sensor = "AirQuality" /\ conversion.raw = 0 /\ conversion.out # None) =>
        conversion.out = Some(Err("ReadError"))

\* 1024 times the value the stated linear formula gives for the raw sample:
\* raw * 5 / 1024 * 100, raw * 100 / 1024, (raw * 5 / 1024 - 0.5) * 400.
Formula1024(sensor, raw) ==
    CASE sensor = "Temperature" -> raw * 500
      [] sensor = "Humidity" -> raw * 100
      [] sensor = "Pressure" -> (raw * 5 - 512) * 400

\* The valid range of each channel.
ValidRange(sensor) ==
    CASE sensor = "Temperature" -> [min |-> -40, max |-> 125]
      [] sensor = "Humidity" -> [min |-> 0, max |-> 100]
      [] sensor = "Pressure" -> [min |-> 30, max |-> 110]

\* 1024 times the non-negative f32 value x if that is an integer, else -1.
Times1024(x) ==
    IF x.k # "fin" \/ x.s = 1 THEN -1
    ELSE IF x.m = 0 THEN 0
    ELSE IF x.e + 10 >= 0 THEN x.m * 2^(x.e + 10)
    ELSE IF x.m % 2^(-(x.e + 10)) = 0 THEN x.m \div 2^(-(x.e + 10))
    ELSE -1

\* C16: for every raw sample in 0..1023 the temperature, humidity and
\* pressure conversions return Ok(v) exactly when the value of the stated
\* linear formula lies in the channel's valid range ([-40,125], [0,100],
\* [30,110]), v then being that value, and return Err(ReadError) exactly
\* when it lies outside; raw 512 on the temperature channel (250.0) is a
\* ReadError.
C16_LinearConversions ==
    (conversion # None /\ conversion.out # None /\ conversion.sensor # "AirQuality") =>
        LET value == Formula1024(conversion.sensor, conversion.raw)
            range == ValidRange(conversion.sensor)
        IN  IF range.min * 1024 <= value /\ value <= range.max * 1024
            THEN /\ conversion.out[1].ok
                 /\ Times1024(conversion.out[1].val) = value
            ELSE conversion.out = Some(Err("ReadError"))

C16_Witness ==
    /\ conversion # None
    /\ conversion.sensor = "Temperature"
    /\ conversion.raw = 512
    /\ conversion.out = Some(Err("ReadError"))

-----------------------------------------------------------------------------
\* Properties of the alert system, checked under SpecAlerts.

\* The three rules in their fixed order, decided on the whole numbers of the
\* input: whether each fires, and the level and value its alert carries.
Rules(input) ==
    <<[fires |-> input.air_quality > 100, level |-> "Warning",
       value |-> input.air_quality],
      [fires |-> input.temperature > 35 \/ input.temperature < 5,
       level |-> "Critical", value |-> input.temperature],
      [fires |-> input.humidity > 90 \/ input.humidity < 10,
       level |-> "Warning", value |-> input.humidity]>>

RuleFires(rule) == rule.fires

\* C17: check_alerts fires each rule independently and returns the alerts
\* in the fixed order air_quality, temperature, humidity: a Warning iff
\* air_quality > alert_threshold (100), a Critical iff temperature > 35 or
\* < 5, a Warning iff humidity > 90 or < 10, a value on a threshold firing
\* nothing; each alert carries the value of its field and the timestamp of
\* the reading, and the list depends on the reading alone.
C17_AlertRules ==
    Len(evaluation.flags) > 0 =>
        LET fired == SelectSeq(Rules(evaluation.input), RuleFires)
        IN  /\ Len(evaluation.alerts) = Len(fired)
            /\ \A i \in 1..Len(fired) :
                  /\ evaluation.alerts[i].level = fired[i].level
                  /\ evaluation.alerts[i].value = F32FromInt(fired[i].value)
                  /\ evaluation.alerts[i].timestamp = U32(evaluation.input.timestamp)

C17_Witness ==
    /\ Len(evaluation.flags) = 3
    /\ evaluation.input = AlertInput(101, 20, 9, 9)
    /\ Len(evaluation.alerts) = 2
    /\ evaluation.alerts[1].value = F32FromInt(101)
    /\ evaluation.alerts[2].value = F32FromInt(9)

\* The number of alert-triggering evaluations among the most recent
\* min(n, 10) of the n evaluations made.
RecentAlerts ==
    Cardinality({j \in 1..Len(evaluation.flags) :
                    j > Len(evaluation.flags) - 10 /\ evaluation.flags[j]})

\* Evaluation j wrote its flag at index (j - 1) mod 10 and incremented the
\* counter: the history holds the flags of the most recent evaluations.
HistoryWritten ==
    /\ alert_system.alert_count = Len(evaluation.flags)
    /\ \A j \in 1..Len(evaluation.flags) :
          j > Len(evaluation.flags) - 10 =>
              alert_system.alert_history[(j - 1) % 10] = evaluation.flags[j]

\* The f32 value next above the positive f32 value x.
NextAbove(x) == F32Fin(x.s, x.m + 1, x.e)

-----------------------------------------------------------------------------
\* Further properties of run_monitoring_cycle, checked under Spec.

\* C19: a cycle that acquires at the clock value current_time and completes
\* successfully leaves last_reading_time equal to that current_time, the
\* value read at the start of the cycle, and not to last_reading_time +
\* reading_interval.
C19_StampIsCurrentTime ==
    [][(/\ polls' = polls + 1
        /\ acquired' # None
        /\ result' = "Ok") =>
           last_reading_time' = clock]_vars

C19_Witness ==
    /\ pc = "handle"
    /\ acquired # None
    /\ result = "Ok"
    /\ Len(stored) = 2
    /\ last_reading_time = clock
    /\ acquired[1].data.timestamp = U32WrappingAdd(clock, U32(1))
    /\ U32WrappingSub(clock, stored[1].timestamp) = U32(9800)

\* C20, checked under SpecLive: whatever sensor and communication faults
\* occur, the driver loop keeps polling, so that acquisition is attempted
\* again and readings go on being stored: every run of main makes each of
\* its polls and comes back from it to the delay at the end of the loop.
C20_KeepsPolling == <>(polls = MaxPolls /\ pc = "delay")

\* What one call of calibrate_all_sensors leaves in the two fields it writes.
after_calibrate_all(config) ==
    LET r == calibrate_loop(config,
                 <<"Temperature", "Humidity", "AirQuality", "Pressure">>, 1)
    IN  [config |-> r.config,
         status |-> IF r.ok THEN "Running" ELSE "Calibrating"]

\* The steps of main that call calibrate_all_sensors.
CalibrateStep ==
    (pc = "boot" \/ (pc = "handle" /\ result = "ReadError")) /\ pc' # pc

\* C21: calibrate_all_sensors writes the status and calibration_factor only:
\* reading_interval, alert_threshold, the ring, the alert history and
\* last_reading_time are as before the call; and a second call made right
\* after the first would leave the state the first one left.
C21_CalibrateAllIdempotent ==
    [][CalibrateStep =>
         /\ sensor_config'.reading_interval = sensor_config.reading_interval
         /\ sensor_config'.alert_threshold = sensor_config.alert_threshold
         /\ data_storage' = data_storage
         /\ alert_system' = alert_system
         /\ communication' = communication
         /\ last_reading_time' = last_reading_time
         /\ [config |-> sensor_config', status |-> system_status']
              = after_calibrate_all(sensor_config)
         /\ after_calibrate_all(sensor_config')
              = [config |-> sensor_config', status |-> system_status']]_vars

C21_Witness ==
    /\ pc = "delay"
    /\ result = "ReadError"
    /\ status_trace = <<"Calibrating", "Running">>
    /\ Len(stored) >= 1
    /\ data_storage.write_index >= 1
    /\ alert_system.alert_count >= 1

\* C22: two consecutive calls of store_data are made in cycles whose
\* current_time values are at least reading_interval apart (the difference
\* taken modulo 2^32), in every execution of the loop of main, those in
\* which send_data or send_alert fails included.
C22_StoresSpaced ==
    \A i \in 1..(Len(store_times) - 1) :
        U32Ge(U32WrappingSub(store_times[i + 1], store_times[i]),
              sensor_config.reading_interval)

\* C23: in the loop of main (calibrate_all_sensors once, then a cycle, a
\* recalibration when the cycle returned ReadError, a delay, and again) the
\* status is Running whenever a cycle is about to start and whenever one has
\* been handled; Error and Calibrating are not seen between two iterations.
C23_RunningAtCycleBoundary ==
    pc \in {"cycle", "delay"} => system_status = "Running"

C23_Witness ==
    /\ pc = "cycle"
    /\ polls >= 2
    /\ result = "ReadError"
    /\ system_status = "Running"

(***************************************************************************)
(* Properties of SpecCycles                                                *)
(***************************************************************************)
\* C24: run_monitoring_cycle never writes Running: a cycle leaves the status
\* as it found it or sets it to Error. Once Error, the status stays Error
\* over later cycles (gated, successful or failing in the transport) until
\* calibrate_all_sensors runs; and a cycle entered with the status Error and
\* the interval elapsed still calls read_all_sensors.
C24_ErrorIsSticky ==
    /\ [][polls' = polls + 1 =>
             \/ system_status' = system_status
             \/ system_status' = "Error" /\ result' = "ReadError"]_vars
    /\ [][(system_status = "Error" /\ system_status' # "Error") =>
             /\ CalibrateStep
             /\ status_trace' = <<"Calibrating", "Running">>]_vars
    /\ [][(polls' = polls + 1 /\ system_status = "Error" /\ pc' = "handle"
             /\ interval_elapsed(clock, last_reading_time,
                                 sensor_config.reading_interval)) =>
             acquired' # None]_vars

C24_Witness ==
    /\ system_status = "Error"
    /\ pc = "handle"
    /\ result = "Ok"
    /\ acquired # None
    /\ acquired[1].ok
    /\ Len(stored) >= 1

-----------------------------------------------------------------------------
(***************************************************************************)
(* Properties of SpecSort                                                  *)
(***************************************************************************)
\* The number of elements of arr equal to v.
Occurrences(arr, v) == Cardinality({i \in DOMAIN arr : arr[i] = v})

NonDecreasing(arr) == \A i \in 1..(Len(arr) - 1) : arr[i] <= arr[i + 1]

Permutation(a, b) ==
    /\ Len(a) = Len(b)
    /\ \A i \in DOMAIN a : Occurrences(a, a[i]) = Occurrences(b, a[i])

\* C25: for every i32 slice, the empty slice and the slices of one element
\* included, bubble_sort_rust returns without an index or arithmetic fault
\* and leaves the slice in non-decreasing order, a permutation of what it
\* was given.
C25_SortsEverySlice ==
    sorting.output # None =>
        /\ sorting.output[1].fault = "none"
        /\ NonDecreasing(sorting.output[1].arr)
        /\ Permutation(sorting.input, sorting.output[1].arr)

=============================================================================
